---------------------------- MODULE Spec2Model ----------------------------
(***************************************************************************)
(* A model of the GoogLeNet backbone (ppcls/arch/backbone/model_zoo/       *)
(* googlenet.py) and of the inference driver (tools/infer/py_infer.py).    *)
(*                                                                         *)
(* The module holds one specification per part of the program:            *)
(*   Spec       main and get_image_list, the inference driver              *)
(*   SpecPost   postprocess (top-k of a score vector)                      *)
(*   SpecLoad   GoogLeNet and _load_pretrained                             *)
(*   SpecInce   Inception.forward                                          *)
(*   SpecFwd    GoogLeNetDY.forward                                        *)
(***************************************************************************)
EXTENDS Integers, Sequences, FiniteSets, TLC

VARIABLES
    \* ---- postprocess (py_infer.py) ----
    outputs,      \* the fetched tensors handed to postprocess
    topk,         \* the requested k
    order,        \* prob.argsort(axis=0): class indices by ascending score
    result,       \* the (index, score) pairs postprocess returns
    ppc,          \* "call" before postprocess has run, "done" after
    \* ---- GoogLeNet(pretrained, use_ssld, **kwargs) (googlenet.py) ----
    pretrained,   \* the pretrained argument, a Python value
    use_ssld,     \* the use_ssld argument
    kwargs,       \* the keyword arguments passed on to GoogLeNetDY
    model,        \* the GoogLeNetDY built by the call (NoModel before)
    loader_calls, \* the calls made to the two loaders of save_load, in order
    raised,       \* the exception leaving GoogLeNet ("none" while there is none)
    returned,     \* what the caller of GoogLeNet received (NoModel if nothing)
    lpc,          \* where the call of GoogLeNet stands
    \* ---- Inception.forward (googlenet.py) ----
    ince_self,    \* the Inception layer called
    ince,         \* the locals of Inception.forward
    ipc,          \* "call" before Inception.forward has run, then "done" or "raised"
    \* ---- GoogLeNetDY.forward (googlenet.py) ----
    net_self,     \* the GoogLeNetDY called: class_num, data_format, training
    frame,        \* the locals of GoogLeNetDY.forward
    fpc,          \* the statement of forward that runs next
    fstatus,      \* "forward" while the call runs, then "returned" or "raised"
    visited,      \* the layers run so far, each with the shape it produced
    freturn,      \* the list forward returned (<<>> before)
    \* ---- main and get_image_list (py_infer.py) ----
    img_file,     \* args.image_file: a path (a sequence of characters) or None
    fs_kind,      \* what img_file names on disk: "missing", "file" or "dir"
    fs_listing,   \* os.listdir(img_file) when it is a directory
    bad_files,    \* the paths whose bytes cannot be read or decoded
    image_list,   \* what get_image_list returned
    idx,          \* the position in image_list of the image being handled
    data,         \* the path whose tensor is in data (<<>> when none)
    printed,      \* the paths whose predictions were printed, in order
    merror,       \* the step whose exception ended main ("none" if none)
    mpc           \* the statement of main that runs next

postVars == <<outputs, topk, order, result, ppc>>
loadVars == <<pretrained, use_ssld, kwargs, model, loader_calls, raised, returned, lpc>>
inceVars == <<ince_self, ince, ipc>>
fwdVars == <<net_self, frame, fpc, fstatus, visited, freturn>>
mainVars == <<img_file, fs_kind, fs_listing, bad_files, image_list, idx, data, printed, merror, mpc>>

vars == <<postVars, loadVars, inceVars, fwdVars, mainVars>>

Min(a, b) == IF a < b THEN a ELSE b
Max(a, b) == IF a > b THEN a ELSE b

Range(s) == {s[i] : i \in 1..Len(s)}

Reverse(s) == [i \in 1..Len(s) |-> s[Len(s) + 1 - i]]

(***************************************************************************)
(*        Tensors and the layers of paddle.nn used by googlenet.py         *)
(*                                                                         *)
(* A tensor is its shape and the layers that produced it from the input    *)
(* (its history); its numbers are not modelled.  A layer whose declared    *)
(* input width does not fit the tensor it is given raises: Raised.         *)
(***************************************************************************)

Tensor(shape, hist) == [shape |-> shape, hist |-> hist]
Raised == Tensor(<<>>, <<"raised">>)
Unbound == Tensor(<<>>, <<"unbound">>)
IsTensor(t) == Len(t.shape) > 0

Last(s) == s[Len(s)]

\* The axes (1-based) of a 4-D tensor in each layout.
ChannelAxis(data_format) == IF data_format = "NHWC" THEN 4 ELSE 2
HeightAxis(data_format) == IF data_format = "NHWC" THEN 2 ELSE 3
WidthAxis(data_format) == IF data_format = "NHWC" THEN 3 ELSE 4

Channels(t, data_format) == t.shape[ChannelAxis(data_format)]
Height(t, data_format) == t.shape[HeightAxis(data_format)]
Width(t, data_format) == t.shape[WidthAxis(data_format)]

\* A plausible slip: ceil_mode=True, the size rounded up.
OutSizeCeil(h, k, stride, padding) == (h + 2 * padding - k + stride - 1) \div stride + 1

\* The output size of a convolution or pooling window along one axis
\* (ceil_mode is left at its default, False).
OutSize(h, k, stride, padding) == (h + 2 * padding - k) \div stride + 1

\* A window of size k, stride and padding slid over H and W, the channel
\* count becoming out_channels.
Windowed(x, out_channels, k, stride, padding, data_format, name) ==
    IF \/ Height(x, data_format) + 2 * padding < k
       \/ Width(x, data_format) + 2 * padding < k
    THEN Raised
    ELSE Tensor([i \in 1..4 |->
                    IF i = ChannelAxis(data_format) THEN out_channels
                    ELSE IF i = HeightAxis(data_format)
                         THEN OutSize(Height(x, data_format), k, stride, padding)
                    ELSE IF i = WidthAxis(data_format)
                         THEN OutSize(Width(x, data_format), k, stride, padding)
                    ELSE x.shape[i]],
                Append(x.hist, name))

\* paddle.nn.Conv2D(in_channels, out_channels, kernel_size, stride, padding,
\* groups, data_format)
Conv2D(x, in_channels, out_channels, kernel_size, stride, padding, groups, data_format, name) ==
    IF \/ ~IsTensor(x)
       \/ Len(x.shape) # 4
       \/ Channels(x, data_format) # in_channels
       \/ in_channels % groups # 0
    THEN Raised
    ELSE Windowed(x, out_channels, kernel_size, stride, padding, data_format, name)

\* paddle.nn.MaxPool2D(kernel_size, stride, padding, data_format)
MaxPool2D(x, kernel_size, stride, padding, data_format, name) ==
    IF ~IsTensor(x) \/ Len(x.shape) # 4
    THEN Raised
    ELSE Windowed(x, Channels(x, data_format), kernel_size, stride, padding,
                  data_format, name)

\* paddle.nn.AvgPool2D(kernel_size, stride, data_format)
AvgPool2D(x, kernel_size, stride, data_format, name) ==
    IF ~IsTensor(x) \/ Len(x.shape) # 4
    THEN Raised
    ELSE Windowed(x, Channels(x, data_format), kernel_size, stride, 0,
                  data_format, name)

\* paddle.nn.AdaptiveAvgPool2D(output_size, data_format)
AdaptiveAvgPool2D(x, output_size, data_format, name) ==
    IF ~IsTensor(x) \/ Len(x.shape) # 4
    THEN Raised
    ELSE Tensor([i \in 1..4 |->
                    IF i \in {HeightAxis(data_format), WidthAxis(data_format)}
                    THEN output_size ELSE x.shape[i]],
                Append(x.hist, name))

RECURSIVE Product(_)
Product(s) == IF s = <<>> THEN 1 ELSE Head(s) * Product(Tail(s))

\* nn.Flatten(): every axis after the first folded into one.
NNFlatten(x, name) ==
    IF ~IsTensor(x)
    THEN Raised
    ELSE Tensor(<<x.shape[1], Product(Tail(x.shape))>>, Append(x.hist, name))

\* paddle.nn.Linear(in_features, out_features)
Linear(x, in_features, out_features, name) ==
    IF ~IsTensor(x) \/ Last(x.shape) # in_features
    THEN Raised
    ELSE Tensor([x.shape EXCEPT ![Len(x.shape)] = out_features], Append(x.hist, name))

\* F.relu
Relu(x, name) == IF ~IsTensor(x) THEN Raised ELSE Tensor(x.shape, Append(x.hist, name))

\* paddle.nn.Dropout(p, mode="downscale_in_infer"): in training the dropped
\* activations are zeroed, in inference all are scaled by 1 - p; the shape
\* is the input's either way.
Dropout(x, training, name) ==
    IF ~IsTensor(x) THEN Raised ELSE Tensor(x.shape, Append(x.hist, name))

\* paddle.transpose(x, perm), perm 0-based.
Transpose(x, perm, name) ==
    IF ~IsTensor(x) \/ Len(x.shape) # Len(perm)
    THEN Raised
    ELSE Tensor([i \in 1..Len(perm) |-> x.shape[perm[i] + 1]], Append(x.hist, name))

RECURSIVE SumAxis(_, _)
SumAxis(xs, axis) ==
    IF xs = <<>> THEN 0 ELSE Head(xs).shape[axis + 1] + SumAxis(Tail(xs), axis)

\* paddle.concat(xs, axis), axis 0-based: the tensors must agree on every
\* other axis.  The history of the result names the tensors joined, in
\* their order along the axis.
Concat(xs, axis) ==
    IF \/ \E i \in 1..Len(xs) : ~IsTensor(xs[i]) \/ Len(xs[i].shape) # Len(xs[1].shape)
       \/ axis + 1 > Len(xs[1].shape)
    THEN Raised
    ELSE IF \E i \in 1..Len(xs) : \E a \in 1..Len(xs[1].shape) :
                a # axis + 1 /\ xs[i].shape[a] # xs[1].shape[a]
    THEN Raised
    ELSE Tensor([xs[1].shape EXCEPT ![axis + 1] = SumAxis(xs, axis)],
                <<"concat">> \o [i \in 1..Len(xs) |-> Last(xs[i].hist)])

(***************************************************************************)
(*                  ConvLayer and Inception (googlenet.py)                 *)
(***************************************************************************)

\* A plausible slip: no padding.
ConvPaddingNone(filter_size) == 0

\* padding=(filter_size - 1) // 2
ConvPadding(filter_size) == (filter_size - 1) \div 2

\* ConvLayer(num_channels, num_filters, filter_size, stride, groups=1,
\* data_format).forward(inputs)
ConvLayer(inputs, num_channels, num_filters, filter_size, stride, data_format, name) ==
    Conv2D(inputs, num_channels, num_filters, filter_size, stride,
           ConvPadding(filter_size), 1, data_format, name)

\* Inception(input_channels, output_channels, filter1, filter3R, filter3,
\* filter5R, filter5, proj, data_format): the layer's own fields.
InceptionLayer(input_channels, output_channels, filter1, filter3R, filter3, filter5R, filter5, proj, data_format) ==
    [input_channels |-> input_channels, output_channels |-> output_channels,
     filter1 |-> filter1, filter3R |-> filter3R, filter3 |-> filter3,
     filter5R |-> filter5R, filter5 |-> filter5, proj |-> proj,
     data_format |-> data_format]

\* The axis Inception.forward concatenates along.
ConcatAxis(data_format) == IF data_format = "NHWC" THEN 3 ELSE 1

\* Inception.forward(inputs): the locals of the call.
InceptionForward(self, inputs) ==
    LET df == self.data_format
        conv1 == ConvLayer(inputs, self.input_channels, self.filter1, 1, 1, df, "_conv1")
        conv3r == ConvLayer(inputs, self.input_channels, self.filter3R, 1, 1, df, "_conv3r")
        conv3 == ConvLayer(conv3r, self.filter3R, self.filter3, 3, 1, df, "_conv3")
        conv5r == ConvLayer(inputs, self.input_channels, self.filter5R, 1, 1, df, "_conv5r")
        conv5 == ConvLayer(conv5r, self.filter5R, self.filter5, 5, 1, df, "_conv5")
        pool == MaxPool2D(inputs, 3, 1, 1, df, "_pool")
        convprj == ConvLayer(pool, self.input_channels, self.proj, 1, 1, df, "_convprj")
        cat == Concat(<<conv1, conv3, conv5, convprj>>, ConcatAxis(df))
    IN  [inputs |-> inputs, conv1 |-> conv1, conv3r |-> conv3r, conv3 |-> conv3,
         conv5r |-> conv5r, conv5 |-> conv5, pool |-> pool, convprj |-> convprj,
         cat |-> Relu(cat, "relu")]

\* Bounds of the Inception layers and inputs that are enumerated.
MaxWidth == 2
MaxSpatial == 3

DataFormats == {"NCHW", "NHWC"}

\* An input of batch size n with c channels of h x w, in the layout.
InputTensor(n, c, h, w, data_format) ==
    Tensor(IF data_format = "NHWC" THEN <<n, h, w, c>> ELSE <<n, c, h, w>>, <<>>)

InceptionLayers ==
    {InceptionLayer(cin, cin, f1, f3R, f3, f5R, f5, proj, df) :
        cin \in 1..MaxWidth, f1 \in 1..MaxWidth, f3R \in 1..MaxWidth,
        f3 \in 1..MaxWidth, f5R \in 1..MaxWidth, f5 \in 1..MaxWidth,
        proj \in 1..MaxWidth, df \in DataFormats}

NoLocals ==
    [inputs |-> Unbound, conv1 |-> Unbound, conv3r |-> Unbound, conv3 |-> Unbound,
     conv5r |-> Unbound, conv5 |-> Unbound, pool |-> Unbound, convprj |-> Unbound,
     cat |-> Unbound]

InceIdle ==
    /\ ince_self = InceptionLayer(0, 0, 0, 0, 0, 0, 0, 0, "")
    /\ ince = NoLocals
    /\ ipc = "idle"

InceInit ==
    /\ ince_self \in InceptionLayers
    /\ \E h \in 1..MaxSpatial, w \in 1..MaxSpatial :
           ince = [NoLocals EXCEPT !.inputs =
                       InputTensor(1, ince_self.input_channels, h, w, ince_self.data_format)]
    /\ ipc = "call"

\* Inception.forward(inputs); a layer that raises ends the call.
InceptionCall ==
    /\ ipc = "call"
    /\ LET locals == InceptionForward(ince_self, ince.inputs)
       IN  IF IsTensor(locals.cat)
           THEN ince' = locals /\ ipc' = "done"
           ELSE ince' = ince /\ ipc' = "raised"
    /\ UNCHANGED ince_self
    /\ UNCHANGED <<postVars, loadVars, fwdVars, mainVars>>

NextInce == InceptionCall


(***************************************************************************)
(*                       GoogLeNetDY (googlenet.py)                        *)
(***************************************************************************)

\* Bounds of the networks and batches that are enumerated.
MaxBatch == 2
MaxClasses == 2

\* The side of the image the driver feeds the network (create_operators).
size == 224

\* class_num's default.
DefaultClassNum == 1000

ClassNums == {DefaultClassNum} \cup 1..MaxClasses

\* One Inception of the trunk: the output of its forward, with the trunk's
\* history.
InceptionApply(layer, x, name) ==
    LET cat == InceptionForward(layer, x).cat
    IN  IF IsTensor(cat) THEN Tensor(cat.shape, Append(x.hist, name)) ELSE Raised

\* GoogLeNetDY.__init__: the layers by the name of their field, each applied
\* to a tensor x.
Layer(self, name, x) ==
    LET df == self.data_format
    IN  CASE name = "transpose" -> Transpose(x, <<0, 2, 3, 1>>, name)
          [] name = "_conv" -> ConvLayer(x, 3, 64, 7, 2, df, name)
          [] name = "_pool" -> MaxPool2D(x, 3, 2, 0, df, name)
          [] name = "_conv_1" -> ConvLayer(x, 64, 64, 1, 1, df, name)
          [] name = "_conv_2" -> ConvLayer(x, 64, 192, 3, 1, df, name)
          [] name = "_ince3a" ->
               InceptionApply(InceptionLayer(192, 192, 64, 96, 128, 16, 32, 32, df), x, name)
          [] name = "_ince3b" ->
               InceptionApply(InceptionLayer(256, 256, 128, 128, 192, 32, 96, 64, df), x, name)
          [] name = "_ince4a" ->
               InceptionApply(InceptionLayer(480, 480, 192, 96, 208, 16, 48, 64, df), x, name)
          [] name = "_ince4b" ->
               InceptionApply(InceptionLayer(512, 512, 160, 112, 224, 24, 64, 64, df), x, name)
          [] name = "_ince4c" ->
               InceptionApply(InceptionLayer(512, 512, 128, 128, 256, 24, 64, 64, df), x, name)
          [] name = "_ince4d" ->
               InceptionApply(InceptionLayer(512, 512, 112, 144, 288, 32, 64, 64, df), x, name)
          [] name = "_ince4e" ->
               InceptionApply(InceptionLayer(528, 528, 256, 160, 320, 32, 128, 128, df), x, name)
          [] name = "_ince5a" ->
               InceptionApply(InceptionLayer(832, 832, 256, 160, 320, 32, 128, 128, df), x, name)
          [] name = "_ince5b" ->
               InceptionApply(InceptionLayer(832, 832, 384, 192, 384, 48, 128, 128, df), x, name)
          [] name = "_pool_5" -> AdaptiveAvgPool2D(x, 1, df, name)
          [] name = "_drop" -> Dropout(x, self.training, name)
          [] name = "flatten" -> NNFlatten(x, name)
          [] name = "_fc_out" -> Linear(x, 1024, self.class_num, name)
          [] name = "_pool_o1" -> AvgPool2D(x, 5, 3, df, name)
          [] name = "_conv_o1" -> ConvLayer(x, 512, 128, 1, 1, df, name)
          [] name = "_fc_o1" -> Linear(x, 1152, 1024, name)
          [] name = "relu" -> Relu(x, name)
          [] name = "_drop_o1" -> Dropout(x, self.training, name)
          [] name = "_out1" -> Linear(x, 1024, self.class_num, name)
          [] name = "_pool_o2" -> AvgPool2D(x, 5, 3, df, name)
          [] name = "_conv_o2" -> ConvLayer(x, 528, 128, 1, 1, df, name)
          [] name = "_fc_o2" -> Linear(x, 1152, 1024, name)
          [] name = "_drop_o2" -> Dropout(x, self.training, name)
          [] name = "_out2" -> Linear(x, 1024, self.class_num, name)

\* One statement of forward: dst = op(src).
Stmt(dst, op, src) == [dst |-> dst, op |-> op, src |-> src]

\* The statements of forward up to the first auxiliary head.
TrunkStatements(data_format) ==
    (IF data_format = "NHWC" THEN <<Stmt("inputs", "transpose", "inputs")>> ELSE <<>>)
    \o <<Stmt("x", "_conv", "inputs"),
         Stmt("x", "_pool", "x"),
         Stmt("x", "_conv_1", "x"),
         Stmt("x", "_conv_2", "x"),
         Stmt("x", "_pool", "x"),
         Stmt("x", "_ince3a", "x"),
         Stmt("x", "_ince3b", "x"),
         Stmt("x", "_pool", "x"),
         Stmt("ince4a", "_ince4a", "x"),
         Stmt("x", "_ince4b", "ince4a"),
         Stmt("x", "_ince4c", "x"),
         Stmt("ince4d", "_ince4d", "x"),
         Stmt("x", "_ince4e", "ince4d"),
         Stmt("x", "_pool", "x"),
         Stmt("x", "_ince5a", "x"),
         Stmt("ince5b", "_ince5b", "x"),
         Stmt("x", "_pool_5", "ince5b"),
         Stmt("x", "_drop", "x"),
         Stmt("x", "flatten", "x"),
         Stmt("out", "_fc_out", "x")>>

\* The statements of the second auxiliary head.
Aux2Statements ==
    <<Stmt("x", "_pool_o2", "ince4d"),
      Stmt("x", "_conv_o2", "x"),
      Stmt("x", "flatten", "x"),
      Stmt("x", "_fc_o2", "x"),
      Stmt("x", "_drop_o2", "x"),
      Stmt("out2", "_out2", "x")>>

\* A plausible slip: the first tap taken one module late.
StatementsTapLate(data_format) ==
    [i \in 1..Len(TrunkStatements(data_format)) |->
        LET st == TrunkStatements(data_format)[i]
        IN  IF st.op = "_ince4a" THEN Stmt("x", "_ince4a", "x")
            ELSE IF st.op = "_ince4b" THEN Stmt("ince4a", "_ince4b", "x")
            ELSE IF st.op = "_ince4c" THEN Stmt("x", "_ince4c", "ince4a")
            ELSE st]
    \o <<Stmt("x", "_pool_o1", "ince4a"),
         Stmt("x", "_conv_o1", "x"),
         Stmt("x", "flatten", "x"),
         Stmt("x", "_fc_o1", "x"),
         Stmt("x", "relu", "x"),
         Stmt("x", "_drop_o1", "x"),
         Stmt("out1", "_out1", "x")>>
    \o Aux2Statements

\* The statements of GoogLeNetDY.forward, in order.
Statements(data_format) ==
    TrunkStatements(data_format)
    \o <<Stmt("x", "_pool_o1", "ince4a"),
         Stmt("x", "_conv_o1", "x"),
         Stmt("x", "flatten", "x"),
         Stmt("x", "_fc_o1", "x"),
         Stmt("x", "relu", "x"),
         Stmt("x", "_drop_o1", "x"),
         Stmt("out1", "_out1", "x")>>
    \o Aux2Statements

NoFrame ==
    [inputs |-> Unbound, x |-> Unbound, ince4a |-> Unbound, ince4d |-> Unbound,
     ince5b |-> Unbound, out |-> Unbound, out1 |-> Unbound, out2 |-> Unbound]

FwdIdle ==
    /\ net_self = [class_num |-> 0, data_format |-> "", training |-> FALSE]
    /\ frame = NoFrame
    /\ fpc = 0
    /\ fstatus = "idle"
    /\ visited = <<>>
    /\ freturn = <<>>

\* A call of forward on a batch of size x size RGB images, handed over
\* channel-first.
FwdInit ==
    /\ net_self \in [class_num : ClassNums, data_format : DataFormats, training : BOOLEAN]
    /\ \E n \in 1..MaxBatch :
           frame = [NoFrame EXCEPT !.inputs = InputTensor(n, 3, size, size, "NCHW")]
    /\ fpc = 1
    /\ fstatus = "forward"
    /\ visited = <<>>
    /\ freturn = <<>>

\* The next statement of forward runs; a layer that raises ends the call.
ForwardStep ==
    /\ fstatus = "forward"
    /\ fpc <= Len(Statements(net_self.data_format))
    /\ LET st == Statements(net_self.data_format)[fpc]
           y == Layer(net_self, st.op, frame[st.src])
       IN  IF IsTensor(y)
           THEN /\ frame' = [frame EXCEPT ![st.dst] = y]
                /\ visited' = Append(visited, [layer |-> st.op, shape |-> y.shape])
                /\ fpc' = fpc + 1
                /\ fstatus' = fstatus
           ELSE /\ fstatus' = "raised"
                /\ UNCHANGED <<frame, visited, fpc>>
    /\ UNCHANGED <<net_self, freturn>>
    /\ UNCHANGED <<postVars, loadVars, inceVars, mainVars>>

\* return [out, out1, out2]
ForwardReturn ==
    /\ fstatus = "forward"
    /\ fpc = Len(Statements(net_self.data_format)) + 1
    /\ freturn' = <<frame.out, frame.out1, frame.out2>>
    /\ fstatus' = "returned"
    /\ UNCHANGED <<net_self, frame, fpc, visited>>
    /\ UNCHANGED <<postVars, loadVars, inceVars, mainVars>>

NextFwd == ForwardStep \/ ForwardReturn

(***************************************************************************)
(*                        postprocess (py_infer.py)                        *)
(***************************************************************************)

\* Bounds of the score vectors that are enumerated.
MaxLen == 3
MaxScore == 2

Scores == 0..MaxScore
Vectors == UNION {[1..n -> Scores] : n \in 1..MaxLen}
TopKs == (0 - 1)..(MaxLen + 1)

\* np.array(output).flatten(): the rows of the tensor, one after the other.
RECURSIVE Flatten(_)
Flatten(t) == IF t = <<>> THEN <<>> ELSE Head(t) \o Flatten(Tail(t))

\* s[start:] of Python: a negative start counts from the end, and both are
\* clipped to the sequence.
PySliceFrom(s, start) ==
    LET n == Len(s)
        b == IF start < 0 THEN Max(n + start, 0) ELSE Min(start, n)
    IN  SubSeq(s, b + 1, n)

\* prob.argsort(axis=0): the 0-based indices of prob in an order of ascending
\* value.  NumPy's default kind is quicksort, which is not stable: the order
\* among equal values is any (the short vectors enumerated here stand for
\* vectors of every length).
Argsort(prob) ==
    {p \in [1..Len(prob) -> 0..(Len(prob) - 1)] :
        /\ \A i, j \in 1..Len(prob) : i # j => p[i] # p[j]
        /\ \A i, j \in 1..Len(prob) : i < j => prob[p[i] + 1] <= prob[p[j] + 1]}

\* A plausible slip: the reversal [::-1] left out.
TopkIndexNoReverse(sorted, k) == PySliceFrom(sorted, 0 - k)

\* A plausible slip: the head of the ascending order instead of its tail.
TopkIndexHead(sorted, k) == Reverse(SubSeq(sorted, 1, Min(Max(k, 0), Len(sorted))))

\* sorted[-topk:][::-1]
TopkIndex(sorted, k) == Reverse(PySliceFrom(sorted, 0 - k))

\* zip(index, prob[index])
ZipIndexProb(index, prob) == [i \in 1..Len(index) |-> <<index[i], prob[index[i] + 1]>>]

PostIdle ==
    /\ outputs = <<>>
    /\ topk = 0
    /\ order = <<>>
    /\ result = <<>>
    /\ ppc = "idle"

PostInit ==
    /\ outputs \in {<< <<v>> >> : v \in Vectors}
    /\ topk \in TopKs
    /\ order = <<>>
    /\ result = <<>>
    /\ ppc = "call"

\* postprocess(outputs, topk)
Postprocess ==
    /\ ppc = "call"
    /\ LET output == outputs[1]
           prob == Flatten(output)
       IN  \E sorted \in Argsort(prob) :
               /\ order' = sorted
               /\ result' = ZipIndexProb(TopkIndex(sorted, topk), prob)
    /\ ppc' = "done"
    /\ UNCHANGED <<outputs, topk>>
    /\ UNCHANGED <<loadVars, inceVars, fwdVars, mainVars>>

(***************************************************************************)
(*            GoogLeNet and _load_pretrained (googlenet.py)                *)
(***************************************************************************)

\* Bound of the integers enumerated as a pretrained argument.
MaxInt == 2

MODEL_URLS == "https://paddle-imagenet-models-name.bj.bcebos.com/dygraph/GoogLeNet_pretrained.pdparams"

\* A Python value: its type, its number (bool, int, float) and its text (str).
PyVal(t, n, s) == [type |-> t, num |-> n, str |-> s]
PyFalse == PyVal("bool", 0, "")
PyTrue == PyVal("bool", 1, "")
PyNone == PyVal("NoneType", 0, "")

PretrainedSources ==
    {PyFalse, PyTrue, PyNone}
        \cup {PyVal("int", n, "") : n \in 0..MaxInt}
        \cup {PyVal("float", n, "") : n \in 0..1}
        \cup {PyVal("str", 0, p) : p \in {"", "./GoogLeNet_pretrained"}}
        \cup {PyVal("list", 0, "")}

NoModel == [class_num |-> 0, data_format |-> "", params |-> "none"]

\* pretrained == False, which also holds of 0 and 0.0: a plausible slip for
\* the identity test.
EqFalse(v) == v.type \in {"bool", "int", "float"} /\ v.num = 0

\* `elif pretrained:`, the truth value instead of the identity test.
Truthy(v) ==
    \/ v.type \in {"bool", "int", "float"} /\ v.num # 0
    \/ v.type = "str" /\ v.str # ""

\* pretrained is False
IsFalse(v) == v = PyFalse

\* pretrained is True
IsTrue(v) == v = PyTrue

\* isinstance(pretrained, str)
IsInstanceStr(v) == v.type = "str"

\* load_dygraph_pretrain_from_url(model, model_url, use_ssld=use_ssld)
UrlLoaderCall(model_url, ssld) ==
    [fn |-> "load_dygraph_pretrain_from_url", arg |-> model_url, use_ssld |-> ssld]

\* load_dygraph_pretrain(model, pretrained)
PathLoaderCall(path) ==
    [fn |-> "load_dygraph_pretrain", arg |-> path, use_ssld |-> FALSE]

LoadIdle ==
    /\ pretrained = PyFalse
    /\ use_ssld = FALSE
    /\ kwargs = [class_num |-> 0, data_format |-> ""]
    /\ model = NoModel
    /\ loader_calls = <<>>
    /\ raised = "none"
    /\ returned = NoModel
    /\ lpc = "idle"

LoadInit ==
    /\ pretrained \in PretrainedSources
    /\ use_ssld \in BOOLEAN
    /\ kwargs \in [class_num : {1000}, data_format : {"NCHW", "NHWC"}]
    /\ model = NoModel
    /\ loader_calls = <<>>
    /\ raised = "none"
    /\ returned = NoModel
    /\ lpc = "GoogLeNet"

\* model = GoogLeNetDY(**kwargs): the parameters hold what their
\* initializers drew.
Construct ==
    /\ lpc = "GoogLeNet"
    /\ model' = [class_num |-> kwargs.class_num,
                 data_format |-> kwargs.data_format,
                 params |-> "initializer"]
    /\ lpc' = "_load_pretrained"
    /\ UNCHANGED <<pretrained, use_ssld, kwargs, loader_calls, raised, returned>>
    /\ UNCHANGED <<postVars, inceVars, fwdVars, mainVars>>

\* A loader returns, having set the parameters, or raises (a failed
\* download, a missing path, a checkpoint that does not fit), having set
\* none or some of them.
LoaderRuns(call, loaded) ==
    /\ loader_calls' = Append(loader_calls, call)
    /\ \/ /\ model' = [model EXCEPT !.params = loaded]
          /\ raised' = "none"
          /\ lpc' = "return"
       \/ /\ \E p \in {model.params, "partial"} : model' = [model EXCEPT !.params = p]
          /\ raised' = "LoaderError"
          /\ lpc' = "raised"

\* _load_pretrained(pretrained, model, MODEL_URLS["GoogLeNet"], use_ssld=use_ssld)
LoadPretrained ==
    /\ lpc = "_load_pretrained"
    /\ IF IsFalse(pretrained)
       THEN /\ lpc' = "return"
            /\ UNCHANGED <<model, loader_calls, raised>>
       ELSE IF IsTrue(pretrained)
       THEN LoaderRuns(UrlLoaderCall(MODEL_URLS, use_ssld), "pretrained_url")
       ELSE IF IsInstanceStr(pretrained)
       THEN LoaderRuns(PathLoaderCall(pretrained.str), "pretrained_path")
       ELSE /\ raised' = "RuntimeError"
            /\ lpc' = "raised"
            /\ UNCHANGED <<model, loader_calls>>
    /\ UNCHANGED <<pretrained, use_ssld, kwargs, returned>>
    /\ UNCHANGED <<postVars, inceVars, fwdVars, mainVars>>

\* return model
ReturnModel ==
    /\ lpc = "return"
    /\ returned' = model
    /\ lpc' = "returned"
    /\ UNCHANGED <<pretrained, use_ssld, kwargs, model, loader_calls, raised>>
    /\ UNCHANGED <<postVars, inceVars, fwdVars, mainVars>>

NextLoad == Construct \/ LoadPretrained \/ ReturnModel


NextPost == Postprocess


(***************************************************************************)
(*                 get_image_list and main (py_infer.py)                   *)
(*                                                                         *)
(* A path is the sequence of its characters, so that split('.') and        *)
(* os.path.join work on it as they do on a Python string.                  *)
(***************************************************************************)

\* Bound of the directory listings that are enumerated.
MaxEntries == 2

\* None, which no path equals: a path is made of single characters.
None == <<"None">>

jpg == <<"j", "p", "g">>
png == <<"p", "n", "g">>
jpeg == <<"j", "p", "e", "g">>
JPEG == <<"J", "P", "E", "G">>
JPG == <<"J", "P", "G">>
bmp == <<"b", "m", "p">>

img_end == <<jpg, png, jpeg, JPEG, JPG, bmp>>

\* The entries a directory may hold.
DirNames ==
    {<<"a", ".">> \o jpg, <<"b", ".">> \o png, <<"c", ".">> \o JPEG,
     <<"a", ".">> \o bmp, jpg, <<"a", ".", "t", "x", "t">>,
     <<"a", ".">> \o jpg \o <<".", "t", "x", "t">>, <<"a", ".", "J", "p", "g">>}

\* The values of --image_file.
Paths ==
    {<<"d">>, <<"d", "/">>, <<"a", ".">> \o jpeg, <<"a", ".">> \o JPG, jpg,
     <<"d", ".", "v", "/">> \o jpg, <<"a", ".", "t", "x", "t">>}

Listings ==
    {l \in UNION {[1..n -> DirNames] : n \in 0..MaxEntries} :
        \A i, j \in 1..Len(l) : i # j => l[i] # l[j]}

\* s.split(sep) for a one-character sep.
RECURSIVE Split(_, _)
Split(s, sep) ==
    IF \A i \in 1..Len(s) : s[i] # sep
    THEN <<s>>
    ELSE LET i == CHOOSE k \in 1..Len(s) : s[k] = sep /\ \A m \in 1..(k - 1) : s[m] # sep
         IN  <<SubSeq(s, 1, i - 1)>> \o Split(SubSeq(s, i + 1, Len(s)), sep)

\* name.split('.')[-1] in exts
LastPartIn(name, exts) ==
    LET parts == Split(name, ".")
    IN  \E i \in 1..Len(exts) : parts[Len(parts)] = exts[i]

\* os.path.join(a, b) for a b that does not start with a slash.
OsPathJoin(a, b) ==
    IF a = <<>> \/ a[Len(a)] = "/" THEN a \o b ELSE a \o <<"/">> \o b

\* os.path.exists, os.path.isfile, os.path.isdir of img_file.
Exists(kind) == kind # "missing"
IsFile(kind) == kind = "file"
IsDir(kind) == kind = "dir"

\* The directory branch of get_image_list: the entries that pass the test,
\* joined to the directory, in the order of the listing.
RECURSIVE FilterListing(_, _)
FilterListing(dir, listing) ==
    IF listing = <<>> THEN <<>>
    ELSE (IF LastPartIn(Head(listing), img_end)
          THEN <<OsPathJoin(dir, Head(listing))>> ELSE <<>>)
         \o FilterListing(dir, Tail(listing))

\* get_image_list(img_file): the list it returns, or <<>> when it raises.
GetImageList(file, kind, listing) ==
    IF file = None \/ ~Exists(kind)
    THEN <<>>
    ELSE IF IsFile(kind) /\ LastPartIn(file, img_end)
    THEN <<file>>
    ELSE IF IsDir(kind)
    THEN FilterListing(file, listing)
    ELSE <<>>

MainIdle ==
    /\ img_file = None
    /\ fs_kind = "missing"
    /\ fs_listing = <<>>
    /\ bad_files = {}
    /\ image_list = <<>>
    /\ idx = 0
    /\ data = <<>>
    /\ printed = <<>>
    /\ merror = "none"
    /\ mpc = "idle"

\* The candidates of a run: img_file itself, or the entries of the directory.
Candidates(file, kind, listing) ==
    IF IsFile(kind) THEN {file}
    ELSE IF IsDir(kind) THEN {OsPathJoin(file, listing[i]) : i \in 1..Len(listing)}
    ELSE {}

MainInit ==
    /\ img_file \in Paths \cup {None}
    /\ fs_kind \in (IF img_file = None THEN {"missing"}
                    ELSE IF img_file[Len(img_file)] = "/" THEN {"missing", "dir"}
                    ELSE {"missing", "file", "dir"})
    /\ fs_listing \in (IF IsDir(fs_kind) THEN Listings ELSE {<<>>})
    /\ bad_files \in SUBSET Candidates(img_file, fs_kind, fs_listing)
    /\ image_list = <<>>
    /\ idx = 0
    /\ data = <<>>
    /\ printed = <<>>
    /\ merror = "none"
    /\ mpc = "create_predictor"

\* operators = create_operators(); exe, ... = create_predictor(args): the
\* model directory loads, or load_inference_model raises.
CreatePredictor ==
    /\ mpc = "create_predictor"
    /\ \/ /\ mpc' = "get_image_list"
          /\ merror' = merror
       \/ /\ mpc' = "aborted"
          /\ merror' = "create_predictor"
    /\ UNCHANGED <<img_file, fs_kind, fs_listing, bad_files, image_list, idx, data, printed>>
    /\ UNCHANGED <<postVars, loadVars, inceVars, fwdVars>>

\* The head of `for idx, filename in enumerate(image_list)` at position i.
LoopHead(i, list) == IF i < Len(list) THEN "preprocess" ELSE "done"

\* image_list = get_image_list(args.image_file)
CallGetImageList ==
    /\ mpc = "get_image_list"
    /\ LET imgs_lists == GetImageList(img_file, fs_kind, fs_listing)
       IN  IF Len(imgs_lists) = 0
           THEN /\ merror' = "get_image_list"
                /\ mpc' = "aborted"
                /\ UNCHANGED image_list
           ELSE /\ image_list' = imgs_lists
                /\ mpc' = LoopHead(0, imgs_lists)
                /\ UNCHANGED merror
    /\ UNCHANGED <<img_file, fs_kind, fs_listing, bad_files, idx, data, printed>>
    /\ UNCHANGED <<postVars, loadVars, inceVars, fwdVars>>

\* data = preprocess(filename, operators); data = np.expand_dims(data, axis=0):
\* open, read and decode raise on a file that cannot be read or decoded, and
\* main catches nothing.
Preprocess ==
    /\ mpc = "preprocess"
    /\ LET filename == image_list[idx + 1]
       IN  IF filename \in bad_files
           THEN /\ merror' = "preprocess"
                /\ mpc' = "aborted"
                /\ UNCHANGED data
           ELSE /\ data' = filename
                /\ mpc' = "run"
                /\ UNCHANGED merror
    /\ UNCHANGED <<img_file, fs_kind, fs_listing, bad_files, image_list, idx, printed>>
    /\ UNCHANGED <<postVars, loadVars, inceVars, fwdVars>>

\* outputs = exe.run(program, feed=..., fetch_list=...): the executor
\* returns, or raises, and main catches nothing.
Run ==
    /\ mpc = "run"
    /\ \/ /\ mpc' = "print"
          /\ merror' = merror
       \/ /\ mpc' = "aborted"
          /\ merror' = "run"
    /\ UNCHANGED <<img_file, fs_kind, fs_listing, bad_files, image_list, idx, data, printed>>
    /\ UNCHANGED <<postVars, loadVars, inceVars, fwdVars>>

\* probs = postprocess(outputs); the file's name and its predictions are
\* printed; the loop moves on.
PrintPredictions ==
    /\ mpc = "print"
    /\ printed' = Append(printed, data)
    /\ data' = <<>>
    /\ idx' = idx + 1
    /\ mpc' = LoopHead(idx + 1, image_list)
    /\ UNCHANGED <<img_file, fs_kind, fs_listing, bad_files, image_list, merror>>
    /\ UNCHANGED <<postVars, loadVars, inceVars, fwdVars>>

Next == CreatePredictor \/ CallGetImageList \/ Preprocess \/ Run \/ PrintPredictions

(***************************************************************************)
(*                           Specifications                                *)
(*                                                                         *)
(* Each part of the program runs on its own: the variables of the other    *)
(* parts rest at their idle values.                                        *)
(***************************************************************************)

Init == MainInit /\ PostIdle /\ LoadIdle /\ InceIdle /\ FwdIdle

Spec == Init /\ [][Next]_vars

InitInce == InceInit /\ PostIdle /\ LoadIdle /\ FwdIdle /\ MainIdle

SpecInce == InitInce /\ [][NextInce]_vars

InitLoad == LoadInit /\ PostIdle /\ InceIdle /\ FwdIdle /\ MainIdle

SpecLoad == InitLoad /\ [][NextLoad]_vars

InitPost == PostInit /\ LoadIdle /\ InceIdle /\ FwdIdle /\ MainIdle

InitFwd == FwdInit /\ PostIdle /\ LoadIdle /\ InceIdle /\ MainIdle

SpecFwd == InitFwd /\ [][NextFwd]_vars

SpecPost == InitPost /\ [][NextPost]_vars

(***************************************************************************)
(*                      Properties of postprocess                          *)
(***************************************************************************)

Prob == Flatten(outputs[1])
NumClasses == Len(Prob)
PosIn(s, e) == CHOOSE i \in 1..Len(s) : s[i] = e

ScoresNonIncreasing ==
    \A i \in 1..(Len(result) - 1) : result[i][2] >= result[i + 1][2]

PairsFromVector ==
    \A i \in 1..Len(result) :
        /\ result[i][1] \in 0..(NumClasses - 1)
        /\ result[i][2] = Prob[result[i][1] + 1]

IndicesDistinct ==
    \A i, j \in 1..Len(result) : i # j => result[i][1] # result[j][1]

\* No class left out scores more than a returned one.
LargestReturned ==
    \A c \in 0..(NumClasses - 1) :
        (\A i \in 1..Len(result) : result[i][1] # c)
            => \A i \in 1..Len(result) : Prob[c + 1] <= result[i][2]

UniqueMaxFirst ==
    \A c \in 0..(NumClasses - 1) :
        (\A d \in 0..(NumClasses - 1) : d # c => Prob[d + 1] < Prob[c + 1])
            => result[1][1] = c

\* C1: for 1 <= k <= C postprocess returns exactly k (index, score) pairs,
\* scores non-increasing, each score the vector's value at its index, the
\* returned scores the k largest, and the argmax first when the maximum is
\* unique.
C1_TopKSorted ==
    (ppc = "done" /\ 1 <= topk /\ topk <= NumClasses) =>
        /\ Len(result) = topk
        /\ ScoresNonIncreasing
        /\ PairsFromVector
        /\ IndicesDistinct
        /\ LargestReturned
        /\ UniqueMaxFirst

C1_Witness ==
    /\ ppc = "done"
    /\ Prob = <<1, 2, 0>>
    /\ topk = 2
    /\ result = << <<1, 2>>, <<0, 1>> >>

\* C2 as claimed: of two returned pairs with equal score, the one with the
\* smaller class index comes earlier.
C2_TiesLowerIndexFirst ==
    (ppc = "done" /\ 1 <= topk) =>
        \A i, j \in 1..Len(result) :
            (i < j /\ result[i][2] = result[j][2]) => result[i][1] < result[j][1]

\* The order keeps equal scores in index order, as a stable sort does.
KeepsIndexOrder ==
    \A i, j \in 1..Len(order) :
        (i < j /\ Prob[order[i] + 1] = Prob[order[j] + 1]) => order[i] < order[j]

\* C2 as amended: of two returned pairs with equal score, the one that
\* argsort placed later comes earlier in the result; argsort orders by
\* ascending score and fixes no order among equal scores, and where it
\* keeps them in index order the tied pairs come higher index first.
C2_TiesReverseOfArgsort ==
    (ppc = "done" /\ 1 <= topk) =>
        /\ order \in Argsort(Prob)
        /\ \A i, j \in 1..Len(result) :
               (i < j /\ result[i][2] = result[j][2])
                   => /\ PosIn(order, result[i][1]) > PosIn(order, result[j][1])
                      /\ KeepsIndexOrder => result[i][1] > result[j][1]

\* Two tied pairs are returned, the higher index first: argsort kept the
\* equal scores in index order.
C2_Witness ==
    /\ ppc = "done"
    /\ Prob = <<1, 1, 0>>
    /\ topk = 2
    /\ order = <<2, 0, 1>>
    /\ result = << <<1, 1>>, <<0, 1>> >>

\* C10 as claimed: topk = 0 yields an empty result, every k in 0..C yields
\* exactly k pairs, and k > C yields C pairs.
C10_LengthAtBoundaries ==
    ppc = "done" =>
        /\ (topk = 0 => result = <<>>)
        /\ (0 <= topk /\ topk <= NumClasses => Len(result) = topk)
        /\ (topk > NumClasses => Len(result) = NumClasses)

(***************************************************************************)
(*               Properties of GoogLeNet / _load_pretrained                *)
(***************************************************************************)

AfterLoadPretrained == lpc \in {"return", "returned", "raised"}

\* C3: a pretrained source that is neither a boolean nor a string makes
\* GoogLeNet fail during construction: no loader is called, the call never
\* gets to return a model, and the error raised is _load_pretrained's.
C3_MalformedSourceFails ==
    pretrained.type \notin {"bool", "str"} =>
        /\ loader_calls = <<>>
        /\ returned = NoModel
        /\ lpc \notin {"return", "returned"}
        /\ AfterLoadPretrained => (lpc = "raised" /\ raised = "RuntimeError")

C3_Witness ==
    /\ pretrained = PyVal("int", 0, "")
    /\ lpc = "raised"
    /\ raised = "RuntimeError"
    /\ model.params = "initializer"
    /\ loader_calls = <<>>
    /\ returned = NoModel

\* C4: False calls no loader and leaves the initializer's parameters; True
\* calls only the URL loader, once, with the default URL and use_ssld; a
\* string calls only the path loader, once, with that string; a loader's
\* failure leaves GoogLeNet without a returned model.
C4_OneOutcomePerSource ==
    /\ ~AfterLoadPretrained => loader_calls = <<>>
    /\ (AfterLoadPretrained /\ pretrained = PyFalse) =>
           /\ loader_calls = <<>>
           /\ model.params = "initializer"
           /\ raised = "none"
    /\ (AfterLoadPretrained /\ pretrained = PyTrue) =>
           loader_calls = << [fn |-> "load_dygraph_pretrain_from_url",
                              arg |-> MODEL_URLS,
                              use_ssld |-> use_ssld] >>
    /\ (AfterLoadPretrained /\ pretrained.type = "str") =>
           loader_calls = << [fn |-> "load_dygraph_pretrain",
                              arg |-> pretrained.str,
                              use_ssld |-> FALSE] >>
    /\ raised # "none" => (lpc = "raised" /\ returned = NoModel)
    /\ lpc = "returned" => (returned = model /\ raised = "none")
    /\ lpc # "returned" => returned = NoModel

C4_Witness ==
    /\ lpc = "returned"
    /\ pretrained = PyTrue
    /\ use_ssld = TRUE
    /\ Len(loader_calls) = 1
    /\ loader_calls[1].arg = MODEL_URLS
    /\ loader_calls[1].use_ssld = TRUE
    /\ returned.params = "pretrained_url"

(***************************************************************************)
(*                         Properties of Inception                         *)
(***************************************************************************)

SameSpatial(t, u, data_format) ==
    /\ IsTensor(t)
    /\ Height(t, data_format) = Height(u, data_format)
    /\ Width(t, data_format) = Width(u, data_format)
    /\ t.shape[1] = u.shape[1]

\* C6: each of the four branch outputs has the input's H and W, and the
\* output is their concatenation along the channel axis in the order 1x1,
\* 3x3, 5x5, projection: filter1 + filter3 + filter5 + proj channels and the
\* input's H and W, in both layouts.
C6_InceptionShape ==
    /\ ipc # "raised"
    /\ ipc = "done" =>
        LET df == ince_self.data_format
        IN  /\ SameSpatial(ince.conv1, ince.inputs, df)
            /\ SameSpatial(ince.conv3, ince.inputs, df)
            /\ SameSpatial(ince.conv5, ince.inputs, df)
            /\ SameSpatial(ince.convprj, ince.inputs, df)
            /\ Channels(ince.conv1, df) = ince_self.filter1
            /\ Channels(ince.conv3, df) = ince_self.filter3
            /\ Channels(ince.conv5, df) = ince_self.filter5
            /\ Channels(ince.convprj, df) = ince_self.proj
            /\ ince.conv3.hist = <<"_conv3r", "_conv3">>
            /\ ince.conv5.hist = <<"_conv5r", "_conv5">>
            /\ ince.convprj.hist = <<"_pool", "_convprj">>
            /\ SameSpatial(ince.cat, ince.inputs, df)
            /\ Channels(ince.cat, df) =
                   ince_self.filter1 + ince_self.filter3 + ince_self.filter5 + ince_self.proj
            /\ ince.cat.hist = <<"concat", "_conv1", "_conv3", "_conv5", "_convprj", "relu">>

C6_Witness ==
    /\ ipc = "done"
    /\ ince_self.data_format = "NHWC"
    /\ ince_self.filter1 = 1 /\ ince_self.filter3 = 2
    /\ ince_self.filter5 = 1 /\ ince_self.proj = 2
    /\ ince_self.filter3R = 1 /\ ince_self.filter5R = 2
    /\ ince.inputs.shape = <<1, 2, 3, 1>>
    /\ ince.cat.shape = <<1, 2, 3, 6>>

(***************************************************************************)
(*                   Properties of GoogLeNetDY.forward                     *)
(***************************************************************************)

IsPrefix(s, t) == Len(s) <= Len(t) /\ s = SubSeq(t, 1, Len(s))

\* The transposition that comes first in the NHWC layout.
Pre == IF net_self.data_format = "NHWC" THEN <<"transpose">> ELSE <<>>

TrunkOrder ==
    <<"_conv", "_pool", "_conv_1", "_conv_2", "_pool", "_ince3a", "_ince3b", "_pool",
      "_ince4a", "_ince4b", "_ince4c", "_ince4d", "_ince4e", "_pool", "_ince5a", "_ince5b">>
UpToInce4a == SubSeq(TrunkOrder, 1, 9)
UpToInce4d == SubSeq(TrunkOrder, 1, 12)
MainHead == <<"_pool_5", "_drop", "flatten", "_fc_out">>
Aux1Head == <<"_pool_o1", "_conv_o1", "flatten", "_fc_o1", "relu", "_drop_o1", "_out1">>
Aux2Head == <<"_pool_o2", "_conv_o2", "flatten", "_fc_o2", "_drop_o2", "_out2">>

VisitedLayers == [i \in 1..Len(visited) |-> visited[i].layer]

\* C5: forward runs its layers in the fixed order, never raises and, while
\* it has not returned [main, aux1, aux2], has a next layer to run or the
\* return to make (each step moves one layer on, so it terminates); aux1 is computed from
\* the activation recorded right after ince4a, aux2 from the one recorded
\* right after ince4d, main from ince5b's output, and a recorded activation
\* is what its module produced for as long as the call lasts; so in
\* training and in inference mode.
C5_ForwardOrderAndTaps ==
    /\ fstatus \in {"forward", "returned"}
    /\ fstatus = "forward" => fpc \in 1..(Len(Pre \o TrunkOrder \o MainHead \o Aux1Head \o Aux2Head) + 1)
    /\ Len(visited) = fpc - 1
    /\ IsPrefix(VisitedLayers, Pre \o TrunkOrder \o MainHead \o Aux1Head \o Aux2Head)
    /\ IsTensor(frame.ince4a) => frame.ince4a.hist = Pre \o UpToInce4a
    /\ IsTensor(frame.ince4d) => frame.ince4d.hist = Pre \o UpToInce4d
    /\ IsTensor(frame.ince5b) => frame.ince5b.hist = Pre \o TrunkOrder
    /\ fstatus = "returned" =>
           /\ Len(freturn) = 3
           /\ freturn = <<frame.out, frame.out1, frame.out2>>
           /\ freturn[1].hist = Pre \o TrunkOrder \o MainHead
           /\ freturn[2].hist = Pre \o UpToInce4a \o Aux1Head
           /\ freturn[3].hist = Pre \o UpToInce4d \o Aux2Head
    /\ fstatus # "returned" => freturn = <<>>

C5_Witness ==
    /\ fstatus = "returned"
    /\ net_self.training = TRUE
    /\ net_self.data_format = "NHWC"
    /\ Len(freturn) = 3
    /\ Last(freturn[2].hist) = "_out1"
    /\ Last(freturn[3].hist) = "_out2"

IsChainLayer(v) ==
    v.layer \in {"_conv_2", "_ince3a", "_ince3b", "_ince4a", "_ince4b", "_ince4c",
                 "_ince4d", "_ince4e", "_ince5a", "_ince5b"}
IsFlatten(v) == v.layer = "flatten"
IsAuxPool(v) == v.layer \in {"_pool_o1", "_pool_o2"}

ChannelsOf(vs) == [i \in 1..Len(vs) |-> vs[i].shape[ChannelAxis(net_self.data_format)]]
FeaturesOf(vs) == [i \in 1..Len(vs) |-> vs[i].shape[2]]

\* C9: for a 224 x 224 x 3 input no layer is handed a width other than the
\* one it declares (none raises): the channel counts along the chain are
\* 192, 256, 480, 512, 512, 512, 528, 832, 832, 1024, the auxiliary heads
\* pool the 512 channels of ince4a and the 528 of ince4d to 3 x 3, the
\* linear layers receive 1024, 1152 and 1152 features, and the three logit
\* vectors returned have length class_num.
C9_ShapeConsistency ==
    /\ fstatus # "raised"
    /\ IsPrefix(ChannelsOf(SelectSeq(visited, IsChainLayer)),
                <<192, 256, 480, 512, 512, 512, 528, 832, 832, 1024>>)
    /\ IsPrefix(ChannelsOf(SelectSeq(visited, IsAuxPool)), <<512, 528>>)
    /\ \A i \in 1..Len(visited) :
           IsAuxPool(visited[i]) =>
               /\ visited[i].shape[HeightAxis(net_self.data_format)] = 3
               /\ visited[i].shape[WidthAxis(net_self.data_format)] = 3
    /\ IsPrefix(FeaturesOf(SelectSeq(visited, IsFlatten)), <<1024, 1152, 1152>>)
    /\ fstatus = "returned" =>
           \A i \in 1..3 : freturn[i].shape = <<frame.inputs.shape[1], net_self.class_num>>

C9_Witness ==
    /\ fstatus = "returned"
    /\ net_self.class_num = DefaultClassNum
    /\ frame.inputs.shape[1] = 2
    /\ freturn[1].shape = <<2, 1000>>
    /\ freturn[2].shape = <<2, 1000>>
    /\ freturn[3].shape = <<2, 1000>>
    /\ Len(SelectSeq(visited, IsChainLayer)) = 10

(***************************************************************************)
(*                 Properties of get_image_list and main                   *)
(***************************************************************************)

\* The name ends in a dot followed by one of the extensions.
HasDotExtension(name, exts) ==
    \E i \in 1..Len(exts) :
        /\ Len(name) > Len(exts[i])
        /\ SubSeq(name, Len(name) - Len(exts[i]), Len(name)) = <<".">> \o exts[i]

\* The file name of a path: what follows its last slash.
Basename(path) == Last(Split(path, "/"))

GetImageListRan ==
    mpc \notin {"create_predictor", "get_image_list"} /\ merror # "create_predictor"
GetImageListRaised == merror = "get_image_list"

\* C7 as claimed: an error on one image is isolated to it; when main has
\* ended, every image of the list that is readable and on which the
\* executor did not fail has had its predictions printed.
C7_ErrorsIsolated ==
    (mpc \in {"done", "aborted"} /\ GetImageListRan /\ ~GetImageListRaised) =>
        \A i \in 1..Len(image_list) :
            (image_list[i] \notin bad_files /\ ~(merror = "run" /\ i = idx + 1))
                => image_list[i] \in Range(printed)

\* C8 as claimed: get_image_list raises or returns a non-empty list; it
\* raises on None, on a missing path, on a file without a supported
\* extension and on a directory without a supported file; a returned path is
\* img_file or an entry of the directory img_file, its file name ends in a
\* dot and a supported extension, and no such entry is left out.
C8_ImageListContract ==
    GetImageListRan =>
        /\ GetImageListRaised \/ Len(image_list) > 0
        /\ img_file = None => GetImageListRaised
        /\ fs_kind = "missing" => GetImageListRaised
        /\ (fs_kind = "file" /\ ~HasDotExtension(Basename(img_file), img_end))
               => GetImageListRaised
        /\ (fs_kind = "dir"
                /\ \A i \in 1..Len(fs_listing) : ~HasDotExtension(fs_listing[i], img_end))
               => GetImageListRaised
        /\ ~GetImageListRaised =>
               /\ \A i \in 1..Len(image_list) :
                      /\ \/ image_list[i] = img_file
                         \/ \E j \in 1..Len(fs_listing) :
                                image_list[i] = OsPathJoin(img_file, fs_listing[j])
                      /\ HasDotExtension(Basename(image_list[i]), img_end)
               /\ fs_kind = "dir" =>
                      \A j \in 1..Len(fs_listing) :
                          HasDotExtension(fs_listing[j], img_end)
                              => OsPathJoin(img_file, fs_listing[j]) \in Range(image_list)

=============================================================================
